---------------------------- MODULE Spec2Model ----------------------------
(***************************************************************************)
(* A model of the CHIP-8 interpreter chip8-rust: the machine state `Emu`   *)
(* of chip8_core/src/lib.rs and the operations the desktop host calls on   *)
(* it (desktop/src/main.rs).                                               *)
(*                                                                         *)
(* lib.rs holds the state (struct Emu), its constants and Emu::new().      *)
(* The bodies of load, reset, tick, tick_timers and keypress are not in    *)
(* the source tree; they are modelled from spec.md sections 4 and 7.       *)
(* main.rs holds key2btn, play_audio, draw_screen and main(); they are     *)
(* modelled from the code (SpecKeys, SpecHost).                            *)
(*                                                                         *)
(* Encoding of the two large arrays (lossless):                            *)
(*   ram    : [u8; 4096]   is the function from the addresses that hold a  *)
(*            non-zero byte to that byte; every other address of           *)
(*            0..RAM_SIZE-1 holds 0 (RamAt).                               *)
(*   screen : [bool; 2048] is the set of the indices that are true.        *)
(* Two arrays are equal iff their encodings are equal (RamPut never keeps  *)
(* a zero byte).                                                           *)
(***************************************************************************)
EXTENDS Integers, Sequences, FiniteSets

VARIABLES
    chip8,      \* the host's `let mut chip8 = Emu::new()`
    err,        \* what the last operation reported
    prev,       \* chip8 before the last operation (history)
    last,       \* the last operation and its arguments (history)
    callSites,  \* addresses of the call instructions not yet returned from (history)
    ticks,      \* tick() calls since construction or the last reset (history)
    host        \* where main() of the desktop host is, and what it has done

vars == <<chip8, err, prev, last, callSites, ticks, host>>

---------------------------------------------------------------------------
(* Constants of chip8_core/src/lib.rs *)

SCREEN_WIDTH_Double == 2 * 64
SCREEN_WIDTH == 64
SCREEN_HEIGHT_Half == 32 \div 2
SCREEN_HEIGHT == 32

RAM_SIZE_PlusOne == 4096 + 1
RAM_SIZE_Half == 4096 \div 2
RAM_SIZE == 4096
NUM_REGS == 16
STACK_SIZE_PlusOne == 16 + 1
STACK_SIZE == 16
NUM_KEYS == 16

START_ADDR_Shifted == 512 + 2
START_ADDR == 512

(* Widths of the integer fields of struct Emu *)
WrapU8_AsU16(x) == x % 65536
WrapU8(x) == x % 256

WrapU16_As12(x) == x % 4096
WrapU16(x) == x % 65536

(* An entry of stack: [u16; STACK_SIZE] *)
StackEntry_AsU8(x) == x % 256
StackEntry(x) == x % 65536

Byte == 0 .. 255
Regs == 0 .. NUM_REGS - 1

---------------------------------------------------------------------------
(* Array accessors.  An index outside a fixed-size Rust array panics; the  *)
(* callers below test InRam / InKeys before they index.                    *)

InRam(a) == a \in 0 .. RAM_SIZE - 1
InKeys(k) == k \in 0 .. NUM_KEYS - 1

RamAt(ram, a) == IF a \in DOMAIN ram THEN ram[a] ELSE 0

RamPut(ram, a, v) ==
    IF v = 0
    THEN [x \in DOMAIN ram \ {a} |-> ram[x]]
    ELSE [x \in DOMAIN ram \cup {a} |-> IF x = a THEN v ELSE ram[x]]

EmptyRam == [x \in {} |-> 0]

---------------------------------------------------------------------------
(* Emu::new() *)

NewEmu_PcZero ==
    [ pc |-> 0, ram |-> EmptyRam, screen |-> {},
      v_reg |-> [r \in Regs |-> 0], i_reg |-> 0, sp |-> 0,
      stack |-> [i \in 0 .. STACK_SIZE - 1 |-> 0],
      keys |-> [k \in 0 .. NUM_KEYS - 1 |-> FALSE], dt |-> 0, st |-> 0 ]

NewEmu ==
    [ pc |-> START_ADDR,
      ram |-> EmptyRam,
      screen |-> {},
      v_reg |-> [r \in Regs |-> 0],
      i_reg |-> 0,
      sp |-> 0,
      stack |-> [i \in 0 .. STACK_SIZE - 1 |-> 0],
      keys |-> [k \in 0 .. NUM_KEYS - 1 |-> FALSE],
      dt |-> 0,
      st |-> 0 ]

(* The result of an operation: the new machine state and what is reported. *)
Ok(e) == [emu |-> e, err |-> "Ok"]
Fail(e, what) == [emu |-> e, err |-> what]

---------------------------------------------------------------------------
(* load(program_bytes): spec.md 4.1, 7 (CapacityExceeded, all-or-nothing)  *)

LoadRam(ram, data) ==
    LET span == START_ADDR .. START_ADDR + Len(data) - 1
        set  == {a \in span : data[a - START_ADDR + 1] # 0}
    IN  [a \in (DOMAIN ram \ span) \cup set |->
            IF a \in span THEN data[a - START_ADDR + 1] ELSE ram[a]]

LoadEmu(e, data) ==
    IF Len(data) > RAM_SIZE - START_ADDR
    THEN Fail(e, "CapacityExceeded")
    ELSE Ok([e EXCEPT !.ram = LoadRam(e.ram, data)])

(* reset(): spec.md 4.1 *)
ResetEmu(e) == Ok(NewEmu)

(* keypress(key_index, is_pressed): spec.md 4.1 *)
KeypressEmu(e, k, b) ==
    IF InKeys(k) THEN Ok([e EXCEPT !.keys[k] = b]) ELSE Fail(e, "Panic")

(* tick_timers(): spec.md 4.3 *)
TickTimersEmu(e) ==
    Ok([e EXCEPT !.dt = IF @ > 0 THEN @ - 1 ELSE 0,
                 !.st = IF @ > 0 THEN @ - 1 ELSE 0])

---------------------------------------------------------------------------
(* tick(): spec.md 4.2.  Fetch, decode, execute one instruction.           *)

Bit(v, i) == (v \div (2 ^ i)) % 2

FromBits(f) == f[0] + 2 * f[1] + 4 * f[2] + 8 * f[3]
               + 16 * f[4] + 32 * f[5] + 64 * f[6] + 128 * f[7]

Or8(a, b)  == FromBits([i \in 0 .. 7 |-> IF Bit(a, i) + Bit(b, i) > 0 THEN 1 ELSE 0])
And8(a, b) == FromBits([i \in 0 .. 7 |-> Bit(a, i) * Bit(b, i)])
Xor8(a, b) == FromBits([i \in 0 .. 7 |-> (Bit(a, i) + Bit(b, i)) % 2])

(* Step 1: two consecutive bytes at pc, pc+1, big-endian. *)
Fetch(e) == RamAt(e.ram, e.pc) * 256 + RamAt(e.ram, e.pc + 1)

(* Step 2: the four nibbles and the immediate fields. *)
Nib1(op) == (op \div 4096) % 16
Nib2(op) == (op \div 256) % 16
Nib3(op) == (op \div 16) % 16
Nib4(op) == op % 16
LowByte(op) == op % 256
Addr12(op) == op % 4096

SetReg(e, x, v) == [e EXCEPT !.v_reg[x] = v]
(* The result goes to register x first, the flag to register 0xF after it. *)
SetRegFlag(e, x, v, flag) == [e EXCEPT !.v_reg[x] = v, !.v_reg[15] = flag]
Skip(e) == [e EXCEPT !.pc = WrapU16(@ + 2)]
SkipIf(e, cond) == IF cond THEN Skip(e) ELSE e

(* Call: push the (already advanced) pc, then jump. *)
Call(e, nnn) ==
    IF e.sp >= STACK_SIZE
    THEN Fail(e, "StackOverflow")
    ELSE Ok([e EXCEPT !.stack[e.sp] = StackEntry(e.pc), !.sp = e.sp + 1, !.pc = nnn])

(* Return: pop into pc. *)
Ret(e) ==
    IF e.sp = 0
    THEN Fail(e, "StackUnderflow")
    ELSE Ok([e EXCEPT !.sp = e.sp - 1, !.pc = e.stack[e.sp - 1]])

(* Register-register arithmetic, family 0x8. *)
AddXY(e, x, y) ==
    LET sum == e.v_reg[x] + e.v_reg[y]
    IN  SetRegFlag(e, x, WrapU8(sum), IF sum > 255 THEN 1 ELSE 0)

SubXY(e, x, y) ==
    LET a == e.v_reg[x]
        b == e.v_reg[y]
    IN  SetRegFlag(e, x, WrapU8(a - b + 256), IF a < b THEN 0 ELSE 1)

SubnXY(e, x, y) ==
    LET a == e.v_reg[x]
        b == e.v_reg[y]
    IN  SetRegFlag(e, x, WrapU8(b - a + 256), IF b < a THEN 0 ELSE 1)

ShrX(e, x) ==
    LET v == e.v_reg[x]
    IN  SetRegFlag(e, x, v \div 2, v % 2)

ShlX(e, x) ==
    LET v == e.v_reg[x]
    IN  SetRegFlag(e, x, WrapU8(2 * v), Bit(v, 7))

(* Draw-sprite: n rows of 8 pixels read at i_reg, XORed onto the display   *)
(* at (Vx, Vy); pixels outside the grid are clipped.                       *)
OnScreen(col, row) == col < SCREEN_WIDTH /\ row < SCREEN_HEIGHT
PixelIndex(col, row) == col + SCREEN_WIDTH * row

SpritePixels(e, x, y, n) ==
    { PixelIndex(e.v_reg[x] + j, e.v_reg[y] + r) :
        <<r, j>> \in { rj \in (0 .. n - 1) \X (0 .. 7) :
                        /\ Bit(RamAt(e.ram, e.i_reg + rj[1]), 7 - rj[2]) = 1
                        /\ OnScreen(e.v_reg[x] + rj[2], e.v_reg[y] + rj[1]) } }

Draw(e, x, y, n) ==
    IF n > 0 /\ ~InRam(e.i_reg + n - 1)
    THEN Fail(e, "Panic")
    ELSE LET lit == SpritePixels(e, x, y, n)
             hit == lit \cap e.screen
         IN  Ok([e EXCEPT !.screen = (e.screen \ lit) \cup (lit \ e.screen),
                          !.v_reg[15] = IF hit # {} THEN 1 ELSE 0])

(* Family 0xE: skip on key state, the key index held in register x. *)
SkipKey(e, x, pressed) ==
    IF ~InKeys(e.v_reg[x])
    THEN Fail(e, "Panic")
    ELSE Ok(SkipIf(e, e.keys[e.v_reg[x]] = pressed))

(* FX0A: block until a key is down (re-execute the instruction), then     *)
(* store the lowest pressed key.                                          *)
WaitKey(e, x) ==
    LET down == {k \in 0 .. NUM_KEYS - 1 : e.keys[k]}
    IN  IF down = {}
        THEN [e EXCEPT !.pc = WrapU16(@ + 65536 - 2)]
        ELSE SetReg(e, x, CHOOSE k \in down : \A k2 \in down : k <= k2)

(* FX33: the three decimal digits of register x at i_reg, i_reg+1, i_reg+2. *)
Bcd(e, x) ==
    LET v == e.v_reg[x]
    IN  IF ~InRam(e.i_reg + 2)
        THEN Fail(e, "Panic")
        ELSE Ok([e EXCEPT !.ram =
                    RamPut(RamPut(RamPut(e.ram, e.i_reg, v \div 100),
                                  e.i_reg + 1, (v \div 10) % 10),
                           e.i_reg + 2, v % 10)])

(* FX55 / FX65: registers 0..x to / from memory at i_reg. *)
RECURSIVE StoreFrom(_, _, _, _)
StoreFrom(ram, v, base, k) ==
    IF k < 0 THEN ram
    ELSE RamPut(StoreFrom(ram, v, base, k - 1), base + k, v[k])

StoreRegs(e, x) ==
    IF ~InRam(e.i_reg + x)
    THEN Fail(e, "Panic")
    ELSE Ok([e EXCEPT !.ram = StoreFrom(e.ram, e.v_reg, e.i_reg, x)])

LoadRegs(e, x) ==
    IF ~InRam(e.i_reg + x)
    THEN Fail(e, "Panic")
    ELSE Ok([e EXCEPT !.v_reg = [r \in Regs |->
                IF r <= x THEN RamAt(e.ram, e.i_reg + r) ELSE e.v_reg[r]]])

Family8(e, x, y, n) ==
    CASE n = 0  -> SetReg(e, x, e.v_reg[y])
      [] n = 1  -> SetReg(e, x, Or8(e.v_reg[x], e.v_reg[y]))
      [] n = 2  -> SetReg(e, x, And8(e.v_reg[x], e.v_reg[y]))
      [] n = 3  -> SetReg(e, x, Xor8(e.v_reg[x], e.v_reg[y]))
      [] n = 4  -> AddXY(e, x, y)
      [] n = 5  -> SubXY(e, x, y)
      [] n = 6  -> ShrX(e, x)
      [] n = 7  -> SubnXY(e, x, y)
      [] n = 14 -> ShlX(e, x)
      [] OTHER  -> e

FamilyF(e, x, low) ==
    CASE low = 7   -> Ok(SetReg(e, x, e.dt))
      [] low = 10  -> Ok(WaitKey(e, x))
      [] low = 21  -> Ok([e EXCEPT !.dt = e.v_reg[x]])
      [] low = 24  -> Ok([e EXCEPT !.st = e.v_reg[x]])
      [] low = 30  -> Ok([e EXCEPT !.i_reg = WrapU16(e.i_reg + e.v_reg[x])])
      [] low = 41  -> Ok([e EXCEPT !.i_reg = e.v_reg[x] * 5])
      [] low = 51  -> Bcd(e, x)
      [] low = 85  -> StoreRegs(e, x)
      [] low = 101 -> LoadRegs(e, x)
      [] OTHER     -> Ok(e)

(* Step 3: dispatch on the high nibble; e has pc already advanced.  An     *)
(* unrecognized pattern is a no-op.  rnd is the random byte of CXNN.       *)
Execute(e, op, rnd) ==
    LET x   == Nib2(op)
        y   == Nib3(op)
        n   == Nib4(op)
        nn  == LowByte(op)
        nnn == Addr12(op)
    IN  CASE Nib1(op) = 0  -> IF op = 224 THEN Ok([e EXCEPT !.screen = {}])
                              ELSE IF op = 238 THEN Ret(e)
                              ELSE Ok(e)
          [] Nib1(op) = 1  -> Ok([e EXCEPT !.pc = nnn])
          [] Nib1(op) = 2  -> Call(e, nnn)
          [] Nib1(op) = 3  -> Ok(SkipIf(e, e.v_reg[x] = nn))
          [] Nib1(op) = 4  -> Ok(SkipIf(e, e.v_reg[x] # nn))
          [] Nib1(op) = 5  -> Ok(SkipIf(e, n = 0 /\ e.v_reg[x] = e.v_reg[y]))
          [] Nib1(op) = 6  -> Ok(SetReg(e, x, nn))
          [] Nib1(op) = 7  -> Ok(SetReg(e, x, WrapU8(e.v_reg[x] + nn)))
          [] Nib1(op) = 8  -> Ok(Family8(e, x, y, n))
          [] Nib1(op) = 9  -> Ok(SkipIf(e, n = 0 /\ e.v_reg[x] # e.v_reg[y]))
          [] Nib1(op) = 10 -> Ok([e EXCEPT !.i_reg = nnn])
          [] Nib1(op) = 11 -> Ok([e EXCEPT !.pc = WrapU16(e.v_reg[0] + nnn)])
          [] Nib1(op) = 12 -> Ok(SetReg(e, x, And8(rnd, nn)))
          [] Nib1(op) = 13 -> Draw(e, x, y, n)
          [] Nib1(op) = 14 -> IF nn = 158 THEN SkipKey(e, x, TRUE)
                              ELSE IF nn = 161 THEN SkipKey(e, x, FALSE)
                              ELSE Ok(e)
          [] OTHER         -> FamilyF(e, x, nn)

(* One tick.  A reported error leaves the machine state as it was before   *)
(* the call.                                                               *)
TickEmu(e, rnd) ==
    IF ~InRam(e.pc) \/ ~InRam(e.pc + 1)
    THEN Fail(e, "Panic")
    ELSE LET r == Execute([e EXCEPT !.pc = WrapU16(@ + 2)], Fetch(e), rnd)
         IN  IF r.err = "Ok" THEN r ELSE Fail(e, r.err)

---------------------------------------------------------------------------
(* Programs the machine is run on.                                         *)

MaxKey == 1          \* keys 0..MaxKey are pressed and released
MaxExcess == 2       \* oversize programs exceed the capacity by 1..MaxExcess
MaxShort == 3        \* short data programs have 0..MaxShort bytes
MaxTicks == 20       \* tick() is called at most MaxTicks times between resets

W(a, b, c, d) == a * 4096 + b * 256 + c * 16 + d

Bytes(words) ==
    [i \in 1 .. 2 * Len(words) |->
        IF i % 2 = 1 THEN words[(i + 1) \div 2] \div 256
                     ELSE words[i \div 2] % 256]

Capacity == RAM_SIZE - START_ADDR

Zeros(n) == [i \in 1 .. n |-> 0]

(* `head` at 0x200 and `words` at address `at`, zero-filled between and    *)
(* after, up to the full capacity.                                         *)
Placed(head, at, words) ==
    Bytes(head)
    \o Zeros(at - START_ADDR - 2 * Len(head))
    \o Bytes(words)
    \o Zeros(RAM_SIZE - at - 2 * Len(words))

(* 0x200 CALL 206; 202 CALL 20A; 204 JP 204; 206 CALL 20A; 208 RET; 20A RET *)
RomNested ==
    Bytes(<< W(2,2,0,6), W(2,2,0,10), W(1,2,0,4),
             W(2,2,0,6 + 4), W(0,0,14,14), W(0,0,14,14) >>)

(* 0x200 CALL 200: recursion until the stack is full *)
RomRecurse == Bytes(<< W(2,2,0,0) >>)

(* 0x200+2k CALL 0x200+2k+2 for k = 0..16, then JP self *)
RomChain ==
    Bytes([k \in 1 .. STACK_SIZE + 2 |->
            IF k <= STACK_SIZE + 1 THEN W(2,0,0,0) + START_ADDR + 2 * k
            ELSE W(1,0,0,0) + START_ADDR + 2 * (k - 1)])

(* 0x200 RET on an empty stack *)
RomUnderflow == Bytes(<< W(0,0,14,14) >>)

(* 0x200 JP at; at: CALL target; 0x202 RET *)
RomCallAt(at, target) ==
    Placed(<< W(1,0,0,0) + at, W(0,0,14,14) >>, at, << W(2,0,0,0) + target >>)

(* 0x200 LD V0,2; LD DT,V0; LD ST,V0; LD V1,K; 208 JP 208 *)
RomTimers ==
    Bytes(<< W(6,0,0,2), W(15,0,1,5), W(15,0,1,8), W(15,1,0,10), W(1,2,0,8) >>)

(* 0x200 LD V0,3E; LD I,200; DRW V0,V0,2; 206 JP 206 *)
RomDraw ==
    Bytes(<< W(6,0,3,14), W(10,2,0,0), W(13,0,0,2), W(1,2,0,6) >>)

(* A program of every byte value but the first two (JP 200), full capacity *)
RomFull ==
    << 18, 0 >> \o [i \in 1 .. Capacity - 2 |-> (i % 255) + 1]

(* Data of n bytes, none zero *)
RomData(n) == << >> \o [i \in 1 .. n |-> ((7 * i) % 255) + 1]

(* 0x200 LD V0,7; LD I,123; CALL 206; 206.. words that are no instruction; *)
(* 216 JP 216                                                              *)
RomUnknown ==
    Bytes(<< W(6,0,0,7), W(10,1,2,3), W(2,2,0,6),
             W(0,1,2,3), W(5,0,1,1), W(8,0,1,8), W(8,0,1,15), W(9,0,1,3),
             W(14,0,10,0), W(15,0,15,15), W(15,0,0,0), W(1,2,1,6) >>)

(* 0x200 LD V0,10; SKP V0: a key index of 16 *)
RomBadKey == Bytes(<< W(6,0,1,0), W(14,0,9,14), W(1,2,0,4) >>)

(* 0x200 LD I,FFF; LD [I],V1: a store to 0xFFF and 0x1000 *)
RomBadStore == Bytes(<< W(10,15,15,15), W(15,1,5,5), W(1,2,0,4) >>)

(* 0x200 LD V0,1; LD ST,V0; LD I,300; LD [I],V0; 208 JP 208 *)
RomBeep ==
    Bytes(<< W(6,0,0,1), W(15,0,1,8), W(10,3,0,0), W(15,0,5,5), W(1,2,0,8) >>)

Roms ==
    << RomNested, RomRecurse, RomChain, RomUnderflow, RomTimers, RomDraw, RomFull >>
    \o [n \in 1 .. MaxShort + 1 |-> RomData(n - 1)]
    \o [n \in 1 .. MaxExcess |-> RomData(4096 - 512 + n)]
    \o << RomCallAt(RAM_SIZE - 4, START_ADDR + 2),
          RomCallAt(RAM_SIZE - 2, START_ADDR + 2),
          RomCallAt(RAM_SIZE - 4, START_ADDR - 2),
          RomCallAt(RAM_SIZE - 4, RAM_SIZE - 1),
          RomUnknown, RomBadKey, RomBadStore, RomBeep >>

---------------------------------------------------------------------------
(* The machine driven through its operations.                              *)

Op(name, a, b) == [op |-> name, arg |-> a, arg2 |-> b, site |-> -1]

Halted == err = "Panic"

Apply(r, what) ==
    /\ chip8' = r.emu
    /\ err' = r.err
    /\ prev' = chip8
    /\ last' = what

(* main() before its first statement: nothing loaded, no frame begun, the  *)
(* audio queue empty.  `pc` is the statement main() is at, `did` the one   *)
(* it executed last, `i` the index of the inner `for` loop, `polled` the   *)
(* events taken from the event pump in the current poll, `audio` the tone  *)
(* buffers in the audio queue and `audioPrev` those before the last        *)
(* statement, `loads`, `stReads`, `fbReads` and `timerCalls` the calls of  *)
(* load, get_st, get_display and tick_timers (the last three in the        *)
(* current frame).                                                         *)
HostStart ==
    [pc |-> "args", did |-> "start", i |-> 0, polled |-> 0,
     audio |-> 0, audioPrev |-> 0, loads |-> 0,
     stReads |-> 0, fbReads |-> 0, timerCalls |-> 0]

Init ==
    /\ chip8 = NewEmu
    /\ err = "Ok"
    /\ prev = NewEmu
    /\ last = Op("new", 0, 0)
    /\ callSites = << >>
    /\ ticks = 0
    /\ host = HostStart

(* chip8.load(&buffer): main.rs 132-135, before the first tick.  A program *)
(* that fits is loaded into a fresh machine only (spec.md 4.1); an         *)
(* oversize one is also offered to a machine that holds a program.         *)
Load ==
    \E i \in 1 .. Len(Roms) :
        /\ ~Halted
        /\ ticks = 0
        /\ chip8 = NewEmu \/ Len(Roms[i]) > Capacity
        /\ Apply(LoadEmu(chip8, Roms[i]), Op("load", i, 0))
        /\ UNCHANGED <<callSites, ticks>>

Reset ==
    /\ ~Halted
    /\ Apply(ResetEmu(chip8), Op("reset", 0, 0))
    /\ callSites' = << >>
    /\ ticks' = 0

(* chip8.keypress(k, true/false): main.rs 147-160 *)
Keypress ==
    \E k \in 0 .. MaxKey, b \in BOOLEAN :
        /\ ~Halted
        /\ Apply(KeypressEmu(chip8, k, b), Op("keypress", k, IF b THEN 1 ELSE 0))
        /\ UNCHANGED <<callSites, ticks>>

(* chip8.tick_timers(): main.rs 169 *)
TickTimers ==
    /\ ~Halted
    /\ Apply(TickTimersEmu(chip8), Op("tick_timers", 0, 0))
    /\ UNCHANGED <<callSites, ticks>>

RandSample(op) == IF Nib1(op) = 12 THEN {0, 85, 255} ELSE {0}

IsCallOp(op) == Nib1(op) = 2
IsRetOp(op) == op = 238

(* chip8.tick(): main.rs 165 *)
Tick ==
    /\ ~Halted
    /\ ticks < MaxTicks
    /\ ticks' = ticks + 1
    /\ \E rnd \in RandSample(Fetch(chip8)) :
        LET r  == TickEmu(chip8, rnd)
            op == IF InRam(chip8.pc) /\ InRam(chip8.pc + 1) THEN Fetch(chip8) ELSE 0
            top == IF IsRetOp(op) /\ callSites # << >>
                   THEN callSites[Len(callSites)] ELSE -1
        IN  /\ Apply(r, [Op("tick", op, chip8.pc) EXCEPT !.site = top])
            /\ callSites' =
                 IF r.err # "Ok" THEN callSites
                 ELSE IF IsCallOp(op) THEN Append(callSites, chip8.pc)
                 ELSE IF IsRetOp(op) THEN SubSeq(callSites, 1, Len(callSites) - 1)
                 ELSE callSites

(* The operations of the machine in any order, the host left aside. *)
Next ==
    \/ Load /\ UNCHANGED host
    \/ Reset /\ UNCHANGED host
    \/ Keypress /\ UNCHANGED host
    \/ TickTimers /\ UNCHANGED host
    \/ Tick /\ UNCHANGED host

Spec == Init /\ [][Next]_vars

---------------------------------------------------------------------------
(* Properties of load and reset                                            *)

LoadedRom == Roms[last.arg]

(* C1: load of a program of at most 3584 bytes into a fresh machine puts   *)
(* byte N of the program at memory[512+N] and changes nothing else.        *)
C1_LoadCopiesProgram ==
    (last.op = "load" /\ Len(LoadedRom) <= 3584 /\ prev = NewEmu) =>
        /\ err = "Ok"
        /\ \A N \in 0 .. Len(LoadedRom) - 1 :
              RamAt(chip8.ram, 512 + N) = LoadedRom[N + 1]
        /\ \A a \in 0 .. 4095 :
              (a < 512 \/ a >= 512 + Len(LoadedRom)) =>
                  RamAt(chip8.ram, a) = RamAt(prev.ram, a)
        /\ DOMAIN chip8.ram \subseteq 0 .. 4095
        /\ [chip8 EXCEPT !.ram = prev.ram] = prev

C1_Witness ==
    /\ last.op = "load"
    /\ err = "Ok"
    /\ Len(LoadedRom) = 3584
    /\ RamAt(chip8.ram, 4095) # 0
    /\ RamAt(chip8.ram, 512) = 18

(* C2: load of a program longer than 3584 bytes reports CapacityExceeded   *)
(* and leaves the whole machine state as it was.                           *)
C2_OversizeLoadRefused ==
    (last.op = "load" /\ Len(LoadedRom) > 3584) =>
        /\ err = "CapacityExceeded"
        /\ chip8 = prev

C2_Witness ==
    /\ last.op = "load"
    /\ Len(LoadedRom) = 3585
    /\ err = "CapacityExceeded"
    /\ prev.ram # EmptyRam

(* C3: reset from any reachable state gives the construction state:        *)
(* pc = 512 and everything else zero/false, the same as Emu::new(); a      *)
(* reset of a reset machine changes nothing.                               *)
C3_ResetRestoresDefaults ==
    last.op = "reset" =>
        /\ err = "Ok"
        /\ chip8.pc = 512
        /\ \A a \in 0 .. 4095 : RamAt(chip8.ram, a) = 0
        /\ DOMAIN chip8.ram = {}
        /\ chip8.screen = {}
        /\ chip8.v_reg = [r \in 0 .. 15 |-> 0]
        /\ chip8.i_reg = 0
        /\ chip8.sp = 0
        /\ chip8.stack = [i \in 0 .. 15 |-> 0]
        /\ chip8.keys = [k \in 0 .. 15 |-> FALSE]
        /\ chip8.dt = 0
        /\ chip8.st = 0
        /\ chip8 = NewEmu
        /\ (prev.pc = 512 /\ prev = NewEmu => chip8 = prev)

C3_Witness ==
    /\ last.op = "reset"
    /\ prev.sp > 0
    /\ prev.keys[0]
    /\ prev.ram # EmptyRam
    /\ prev.pc # 512
    /\ chip8.pc = 512

---------------------------------------------------------------------------
(* Properties of call and return                                           *)

CallTick == last.op = "tick" /\ IsCallOp(last.arg)
RetTick == last.op = "tick" /\ IsRetOp(last.arg)

(* C4: a call at address A with sp = s < 16 and target NNN sets pc = NNN   *)
(* and sp = s+1; the matching return sets pc = A+2 and sp = s, calls       *)
(* returning last-in-first-out.                                            *)
C4_CallReturnRoundTrip ==
    /\ (CallTick /\ prev.sp < 16) =>
          /\ err = "Ok"
          /\ chip8.pc = last.arg % 4096
          /\ chip8.sp = prev.sp + 1
          /\ callSites[Len(callSites)] = prev.pc
    /\ (RetTick /\ prev.sp > 0) =>
          /\ err = "Ok"
          /\ last.site >= 0
          /\ chip8.pc = last.site + 2
          /\ chip8.sp = prev.sp - 1
    /\ Len(callSites) = chip8.sp

C4_Witness ==
    /\ RetTick
    /\ prev.sp = 2
    /\ chip8.sp = 1
    /\ last.site = 518
    /\ chip8.pc = 520

(* C5: sixteen consecutive calls from sp = 0 succeed and leave sp = 16; a  *)
(* seventeenth reports StackOverflow and changes neither pc nor the call   *)
(* stack, sp staying 16.                                                   *)
C5_SeventeenthCallOverflows ==
    /\ chip8.sp <= 16
    /\ (CallTick /\ prev.sp < 16) =>
          /\ err = "Ok"
          /\ chip8.sp = prev.sp + 1
    /\ (CallTick /\ prev.sp = 16) =>
          /\ err = "StackOverflow"
          /\ chip8.pc = prev.pc
          /\ chip8.stack = prev.stack
          /\ chip8.sp = 16

C5_Witness ==
    /\ CallTick
    /\ ticks = 17
    /\ Len(callSites) = 16
    /\ prev.sp = 16
    /\ err = "StackOverflow"
    /\ chip8.pc = 512 + 2 * 16

---------------------------------------------------------------------------
(* The register-register arithmetic opcodes on sampled operands.           *)

EdgeWidth == 2       \* operand b ranges over the values within EdgeWidth of 0, 128, 255
MaxAluTicks == 1     \* ticks taken after the operands are in the registers

EdgeBytes ==
    (0 .. EdgeWidth) \cup (128 - EdgeWidth .. 127 + EdgeWidth) \cup (255 - EdgeWidth .. 255)

(* add, sub, shr, subn, shl *)
AluOps == {4, 5, 6, 7, 14}
(* (X, Y): distinct, equal, X the flag register, Y the flag register *)
AluRegs == { <<1, 2>>, <<2, 2>>, <<15, 1>>, <<1, 15>> }

(* 0x200 LD Vy,b; LD Vx,a; <8xy op>; 206 JP 206 *)
RomAlu(x, y, op, a, b) ==
    Bytes(<< W(6,y,0,0) + b, W(6,x,0,0) + a, W(8,x,y,op), W(1,2,0,6) >>)

RECURSIVE RunTicks(_, _)
RunTicks(e, k) == IF k = 0 THEN e ELSE TickEmu(RunTicks(e, k - 1), 0).emu

(* The state after load and k ticks of a program. *)
Started(rom, k) ==
    LET e0 == LoadEmu(NewEmu, rom).emu
    IN  /\ chip8 = RunTicks(e0, k)
        /\ prev = RunTicks(e0, k - 1)
        /\ last = Op("tick", Fetch(RunTicks(e0, k - 1)), RunTicks(e0, k - 1).pc)
        /\ err = "Ok"
        /\ callSites = << >>
        /\ ticks = k
        /\ host = HostStart

InitAlu ==
    \E op \in AluOps, xy \in AluRegs, a \in Byte, b \in EdgeBytes :
        Started(RomAlu(xy[1], xy[2], op, a, b), 2)

TickAlu == ticks < 2 + MaxAluTicks /\ Tick /\ UNCHANGED host

SpecAlu == InitAlu /\ [][TickAlu]_vars

AluTick(n) ==
    /\ last.op = "tick"
    /\ err = "Ok"
    /\ Nib1(last.arg) = 8
    /\ Nib4(last.arg) = n

OpX == Nib2(last.arg)
OpY == Nib3(last.arg)
OldVx == prev.v_reg[OpX]
OldVy == prev.v_reg[OpY]

(* C6 as claimed: after the add, register X = (a + b) mod 256 and register *)
(* 0xF = 1 if a + b > 255, else 0, for every register X.                   *)
C6_AddAnyRegister ==
    AluTick(4) =>
        /\ chip8.v_reg[OpX] = (OldVx + OldVy) % 256
        /\ chip8.v_reg[15] = (IF OldVx + OldVy > 255 THEN 1 ELSE 0)

(* C6: after the add, register 0xF = 1 if a + b > 255 (the operands before *)
(* the wrap), else 0, and register X = (a + b) mod 256 when X is not       *)
(* register 0xF; nothing else changes but pc.                              *)
C6_AddCarry ==
    AluTick(4) =>
        /\ chip8.v_reg[15] = (IF OldVx + OldVy > 255 THEN 1 ELSE 0)
        /\ OpX # 15 => chip8.v_reg[OpX] = (OldVx + OldVy) % 256
        /\ \A r \in 0 .. 14 : r # OpX => chip8.v_reg[r] = prev.v_reg[r]

C6_Witness ==
    /\ AluTick(4)
    /\ OpX = 1 /\ OpY = 2
    /\ OldVx = 255 /\ OldVy = 1
    /\ chip8.v_reg[1] = 0
    /\ chip8.v_reg[15] = 1

C8_ShiftAnyRegister ==
    /\ AluTick(6) =>
          /\ chip8.v_reg[OpX] = OldVx \div 2
          /\ chip8.v_reg[15] = OldVx % 2
    /\ AluTick(14) =>
          /\ chip8.v_reg[OpX] = (2 * OldVx) % 256
          /\ chip8.v_reg[15] = OldVx \div 128

(* C8: the shifts are by one bit and put the bit shifted out in register   *)
(* 0xF; the shifted value is left in the register when it is not register  *)
(* 0xF.                                                                    *)
C8_ShiftByOne ==
    /\ AluTick(6) =>
          /\ chip8.v_reg[15] = OldVx % 2
          /\ OpX # 15 => chip8.v_reg[OpX] = OldVx \div 2
    /\ AluTick(14) =>
          /\ chip8.v_reg[15] = OldVx \div 128
          /\ OpX # 15 => chip8.v_reg[OpX] = (2 * OldVx) % 256
    /\ (AluTick(6) \/ AluTick(14)) =>
          \A r \in 0 .. 14 : r # OpX => chip8.v_reg[r] = prev.v_reg[r]

C8_Witness ==
    /\ AluTick(6)
    /\ OpX = 1
    /\ OldVx = 3
    /\ chip8.v_reg[1] = 1
    /\ chip8.v_reg[15] = 1

---------------------------------------------------------------------------
(* Draw-sprite on sampled sprites, positions and displays.                 *)

MaxRows == 2         \* sprites have 0..MaxRows rows
MaxDrawTicks == 2    \* ticks taken once the draw is set up

XSample == {0, 1, 56, 57, 60, 63, 64, 255}
YSample == {0, 30, 31, 32, 255}
RowSample == {0, 129, 255}
(* (X, Y) of the draw: two plain registers, or X the flag register *)
DrawRegs == { <<0, 1>>, <<15, 1>> }
(* What is on the display before: nothing, or a full row of 8 at (x0, y0) *)
Backgrounds == { <<0, 0, 0>>, <<255, 56, 31>>, <<255, 0, 0>>, <<170, 60, 30>> }

Sprites == UNION { [1 .. n -> RowSample] : n \in 0 .. MaxRows }

(* 0x200 LD V0,x0; LD V1,y0; LD I,214; DRW V0,V1,1;                        *)
(* 0x208 LD Vx,vx; LD Vy,vy; LD I,215; DRW Vx,Vy,n; DRW Vx,Vy,n;           *)
(* 0x212 JP 212; 214 background row; 215.. sprite rows                     *)
RomSprite(bg, xy, vx, vy, rows) ==
    Bytes(<< W(6,0,0,0) + bg[2], W(6,1,0,0) + bg[3], W(10,2,1,4), W(13,0,1,1),
             W(6,xy[1],0,0) + vx, W(6,xy[2],0,0) + vy, W(10,2,1,5),
             W(13,xy[1],xy[2],Len(rows)), W(13,xy[1],xy[2],Len(rows)),
             W(1,2,1,2) >>)
    \o << bg[1] >> \o rows

InitDraw ==
    \E bg \in Backgrounds, xy \in DrawRegs, vx \in XSample, vy \in YSample,
       rows \in Sprites :
        Started(RomSprite(bg, xy, vx, vy, rows), 7)

TickDraw == ticks < 7 + MaxDrawTicks /\ Tick /\ UNCHANGED host

SpecDraw == InitDraw /\ [][TickDraw]_vars

DrawTick ==
    /\ last.op = "tick"
    /\ err = "Ok"
    /\ Nib1(last.arg) = 13

(* The draw's operands, read from the state before it. *)
DrawX == prev.v_reg[Nib2(last.arg)]
DrawY == prev.v_reg[Nib3(last.arg)]
DrawN == last.arg % 16
SpriteBit(r, j) == (RamAt(prev.ram, prev.i_reg + r) \div (2 ^ (7 - j))) % 2

Changed == (prev.screen \ chip8.screen) \cup (chip8.screen \ prev.screen)

(* The cell of sprite pixel (r, j) when it is on the grid. *)
LitOnGrid ==
    { (DrawX + rj[2]) + 64 * (DrawY + rj[1]) :
        rj \in { q \in (0 .. DrawN - 1) \X (0 .. 7) :
                    /\ SpriteBit(q[1], q[2]) = 1
                    /\ DrawX + q[2] <= 63
                    /\ DrawY + q[1] <= 31 } }

(* C9: a draw touches only cells with column in 0..63 and row in 0..31,    *)
(* each the target of a sprite pixel that is on the grid; a pixel whose    *)
(* column would be >= 64 or row >= 32 changes no cell, so a full row of 8  *)
(* at x = 60 changes columns 60..63 only.                                  *)
C9_DrawClips ==
    DrawTick =>
        /\ chip8.screen \subseteq 0 .. 2047
        /\ \A c \in Changed :
              \E r \in 0 .. DrawN - 1, j \in 0 .. 7 :
                  /\ DrawX + j <= 63
                  /\ DrawY + r <= 31
                  /\ c % 64 = DrawX + j
                  /\ c \div 64 = DrawY + r
        /\ (DrawX = 60 /\ DrawY <= 31 /\ DrawN = 1 /\ RamAt(prev.ram, prev.i_reg) = 255) =>
              Changed = { 64 * DrawY + col : col \in 60 .. 63 }
        /\ (DrawX >= 64 \/ DrawY >= 32) => Changed = {}

C9_Witness ==
    /\ DrawTick
    /\ DrawX = 60 /\ DrawY = 31 /\ DrawN = 2
    /\ RamAt(prev.ram, prev.i_reg) = 255
    /\ RamAt(prev.ram, prev.i_reg + 1) = 255
    /\ Changed = {2044, 2045, 2046, 2047}

(* The display before the two draws of the sprite. *)
ScreenBefore == RunTicks([NewEmu EXCEPT !.ram = chip8.ram], 7).screen
SecondDraw == DrawTick /\ ticks = 9 /\ Nib2(last.arg) # 15

(* C10 as claimed: a draw XORs every on-grid target pixel with its sprite  *)
(* bit and sets register 0xF to 1 iff a pixel went from on to off; the     *)
(* same sprite drawn again at the same position restores the display, and  *)
(* that second draw reports a collision when the sprite has a lit on-grid  *)
(* pixel.                                                                  *)
C10_SecondDrawCollides ==
    /\ DrawTick =>
          /\ LET lit == LitOnGrid
             IN  \A c \in 0 .. 2047 :
                    (c \in chip8.screen) = ((c \in prev.screen) # (c \in lit))
          /\ chip8.v_reg[15] = (IF prev.screen \ chip8.screen # {} THEN 1 ELSE 0)
    /\ SecondDraw =>
          /\ chip8.screen = ScreenBefore
          /\ LitOnGrid # {} => chip8.v_reg[15] = 1

(* C10: a draw XORs every on-grid target pixel with its sprite bit and     *)
(* sets register 0xF to 1 iff a pixel went from on to off, else 0; the     *)
(* same sprite drawn again at the same position restores the display, and  *)
(* that second draw reports a collision iff the sprite has a lit on-grid   *)
(* pixel that was off before the first draw.                               *)
C10_DrawXorCollision ==
    /\ DrawTick =>
          /\ LET lit == LitOnGrid
             IN  \A c \in 0 .. 2047 :
                    (c \in chip8.screen) = ((c \in prev.screen) # (c \in lit))
          /\ chip8.v_reg[15] = (IF prev.screen \ chip8.screen # {} THEN 1 ELSE 0)
    /\ SecondDraw =>
          /\ chip8.screen = ScreenBefore
          /\ chip8.v_reg[15] = (IF LitOnGrid \ ScreenBefore # {} THEN 1 ELSE 0)

C10_Witness ==
    /\ SecondDraw
    /\ DrawX = 57 /\ DrawY = 30 /\ DrawN = 2
    /\ RamAt(prev.ram, prev.i_reg) = 129
    /\ RamAt(prev.ram, prev.i_reg + 1) = 255
    /\ prev.screen = {1977, 1980, 1982} \cup (2041 .. 2047)
    /\ chip8.screen = {1980, 1982}
    /\ chip8.v_reg[15] = 1

---------------------------------------------------------------------------
(* The timers, counted down from sampled values.                           *)

MaxIdleTicks == 1    \* ticks of the idle loop taken while the timers run down

(* 0x200 LD V0,80; ADD V0,a-80; LD DT,V0; LD V1,80; ADD V1,b-80; LD ST,V1; *)
(* 20C JP 20C: delay timer a and sound timer b, both computed in registers *)
RomTimerSet(a, b) ==
    Bytes(<< W(6,0,8,0), W(7,0,0,0) + ((a + 128) % 256), W(15,0,1,5),
             W(6,1,8,0), W(7,1,0,0) + ((b + 128) % 256), W(15,1,1,8),
             W(1,2,0,12) >>)

InitTimers ==
    \E a \in EdgeBytes, b \in EdgeBytes : Started(RomTimerSet(a, b), 6)

TickIdle == ticks < 6 + MaxIdleTicks /\ Tick /\ UNCHANGED host

TimersRun == TickTimers /\ UNCHANGED host

NextTimers == TickIdle \/ TimersRun

SpecTimers == InitTimers /\ [][NextTimers]_vars

(* The machine after n calls of tick_timers: the first half of the calls,  *)
(* then the rest.                                                          *)
RECURSIVE TimersAfter(_, _)
TimersAfter(e, n) ==
    IF n = 0 THEN e
    ELSE IF n = 1 THEN TickTimersEmu(e).emu
    ELSE LET half == TimersAfter(e, n \div 2)
         IN  IF half.dt >= 0 THEN TimersAfter(half, n - (n \div 2)) ELSE half

(* C11: tick_timers lowers each of dt and st by 1 if it is not 0 and       *)
(* leaves it at 0 otherwise, the one independently of the other, and       *)
(* changes nothing else; both timers stay in 0..255; a timer at n reads 0  *)
(* after exactly n calls.                                                  *)
C11_TimersCountDown ==
    /\ chip8.dt \in 0 .. 255
    /\ chip8.st \in 0 .. 255
    /\ last.op = "tick_timers" =>
          /\ err = "Ok"
          /\ chip8.dt = IF prev.dt = 0 THEN 0 ELSE prev.dt - 1
          /\ chip8.st = IF prev.st = 0 THEN 0 ELSE prev.st - 1
          /\ [chip8 EXCEPT !.dt = prev.dt, !.st = prev.st] = prev
    /\ chip8.dt > 0 =>
          LET e == TimersAfter(chip8, chip8.dt - 1)
          IN  e.dt = 1 /\ TickTimersEmu(e).emu.dt = 0
    /\ chip8.st > 0 =>
          LET e == TimersAfter(chip8, chip8.st - 1)
          IN  e.st = 1 /\ TickTimersEmu(e).emu.st = 0

C11_Witness ==
    /\ last.op = "tick_timers"
    /\ prev.dt = 0
    /\ chip8.dt = 0
    /\ prev.st = 1
    /\ chip8.st = 0
    /\ chip8.v_reg[1] = 255

---------------------------------------------------------------------------
(* Words that are no instruction.                                          *)

(* The 35 instructions of spec.md 4.2. *)
Recognized(op) ==
    LET f == op \div 4096
        n == op % 16
        nn == op % 256
    IN  \/ op = 224 \/ op = 238
        \/ f \in {1, 2, 3, 4, 6, 7, 10, 11, 12, 13}
        \/ f \in {5, 9} /\ n = 0
        \/ f = 8 /\ n \in {0, 1, 2, 3, 4, 5, 6, 7, 14}
        \/ f = 14 /\ nn \in {158, 161}
        \/ f = 15 /\ nn \in {7, 10, 21, 24, 30, 41, 51, 85, 101}

Fetched == last.op = "tick" /\ prev.pc >= 0 /\ prev.pc + 1 <= 4095

(* C12: a tick whose fetched word is no instruction reports no error,      *)
(* moves pc on by exactly 2 and leaves every other component as it was.    *)
C12_UnknownOpcodeIsNoOp ==
    (Fetched /\ ~Recognized(last.arg)) =>
        /\ err = "Ok"
        /\ chip8.pc = prev.pc + 2
        /\ [chip8 EXCEPT !.pc = prev.pc] = prev

C12_Witness ==
    /\ Fetched
    /\ last.arg = 32792
    /\ ~Recognized(last.arg)
    /\ chip8.pc = 524
    /\ chip8.i_reg = 291
    /\ chip8.sp = 1
    /\ chip8.v_reg[0] = 7
    /\ chip8.keys[1]
    /\ chip8.st = 0

---------------------------------------------------------------------------
(* Totality of tick and the range of pc.                                   *)

(* C13: tick reports nothing but StackOverflow and StackUnderflow: no      *)
(* fetch, memory access, display access, register, stack or key lookup of  *)
(* a tick leaves its array.                                                *)
C13_TickIsTotal ==
    last.op = "tick" => err \in {"Ok", "StackOverflow", "StackUnderflow"}

(* C14: pc is an address of memory in every reachable state, and 512       *)
(* after construction and after reset.                                     *)
C14_PcInMemory ==
    /\ chip8.pc >= 0
    /\ chip8.pc <= 4095
    /\ last.op \in {"new", "reset"} => chip8.pc = 512

---------------------------------------------------------------------------
(* The stack pointer.                                                      *)

(* C15: sp is in 0..16 and is the number of calls executed less the number *)
(* of returns executed since the last reset; a return at sp = 0 reports    *)
(* StackUnderflow and leaves sp at 0.                                      *)
C15_StackPointerCounts ==
    /\ chip8.sp \in 0 .. 16
    /\ chip8.sp = Len(callSites)
    /\ (Fetched /\ last.arg = 238 /\ prev.sp = 0) =>
          /\ err = "StackUnderflow"
          /\ chip8.sp = 0

C15_Witness ==
    /\ Fetched
    /\ last.arg = 238
    /\ prev.sp = 0
    /\ err = "StackUnderflow"
    /\ chip8.sp = 0
    /\ callSites = << >>

---------------------------------------------------------------------------
(* The keyboard: key2btn and the key events of the host.                   *)

MaxDown == 2         \* at most MaxDown keys are held down at once

(* The arms of the match in key2btn, Keycode::X written "X". *)
KeyTable ==
    [Num1 |-> 1,  Num2 |-> 2, Num3 |-> 3,  Num4 |-> 12,
     Q    |-> 4,  W    |-> 5, E    |-> 6,  R    |-> 13,
     A    |-> 7,  S    |-> 8, D    |-> 9,  F    |-> 14,
     Z    |-> 10, X    |-> 0, C    |-> 11, V    |-> 15]

BoundKeys == DOMAIN KeyTable

(* The keycodes of the events: the bound keys and two others. *)
Keycodes == BoundKeys \cup {"Escape", "Space"}

Key2Btn_Num4AsQ(key) ==
    IF key \in DOMAIN KeyTable THEN [KeyTable EXCEPT !.Num4 = 4][key] ELSE -1

(* key2btn: Some(k) is k, None is -1. *)
Key2Btn(key) ==
    IF key \in DOMAIN KeyTable THEN KeyTable[key] ELSE -1

(* Event::KeyDown / Event::KeyUp of main.rs 147-160: keypress is called    *)
(* if and only if key2btn gives Some(k).                                   *)
KeyEvent(keys) ==
    \E key \in keys, down \in BOOLEAN :
        LET k == Key2Btn(key)
        IN  /\ ~Halted
            /\ IF k # -1
               THEN Apply(KeypressEmu(chip8, k, down),
                          Op("keypress", k, IF down THEN 1 ELSE 0))
               ELSE UNCHANGED <<chip8, err, prev, last>>
            /\ UNCHANGED <<callSites, ticks>>

InitKeys == Started(RomTimers, 3)

KeysHeld(e) == {k \in 0 .. NUM_KEYS - 1 : e.keys[k]}

AnyKeyEvent ==
    /\ KeyEvent(Keycodes)
    /\ Cardinality(KeysHeld(chip8')) <= MaxDown
    /\ UNCHANGED host

SpecKeys == InitKeys /\ [][AnyKeyEvent]_vars

(* C16: keypress(k, b) with k in 0..15 sets key k to b and changes nothing *)
(* else; the host calls it with the results of key2btn only, which are in  *)
(* 0..15, one index for each of the 16 bound keys, no two alike.           *)
C16_KeypressSetsOneKey ==
    /\ last.op = "keypress" =>
          /\ last.arg \in 0 .. 15
          /\ \E key \in BoundKeys : Key2Btn(key) = last.arg
          /\ err = "Ok"
          /\ chip8.keys[last.arg] = (last.arg2 = 1)
          /\ \A k \in 0 .. 15 : k # last.arg => chip8.keys[k] = prev.keys[k]
          /\ [chip8 EXCEPT !.keys = prev.keys] = prev
    /\ Cardinality(BoundKeys) = 16
    /\ \A key \in BoundKeys : Key2Btn(key) \in 0 .. 15
    /\ \A key \in Keycodes \ BoundKeys : Key2Btn(key) = -1
    /\ \A k1, k2 \in BoundKeys : k1 # k2 => Key2Btn(k1) # Key2Btn(k2)
    /\ \A k \in KeysHeld(chip8) : \E key \in BoundKeys : Key2Btn(key) = k

C16_Witness ==
    /\ last.op = "keypress"
    /\ last.arg = 15
    /\ last.arg2 = 0
    /\ prev.keys[15]
    /\ ~chip8.keys[15]
    /\ chip8.keys[12]
    /\ chip8.dt = 2

---------------------------------------------------------------------------
(* The BCD store on every register value.                                  *)

MaxBcdTicks == 1     \* ticks taken after the register and the index are set

(* Registers the value is in: the first, one in the middle, the flag. *)
BcdRegs == {0, 5, 15}

(* Index values: the first cell, the program itself, free memory, the last *)
(* three cells, and one cell further.                                      *)
BcdAddrs == {0, START_ADDR, 768, RAM_SIZE - 3, RAM_SIZE - 2}

(* 0x200 LD Vx,v; LD I,addr; LD B,Vx; 206 JP 206 *)
RomBcd(x, v, addr) ==
    Bytes(<< W(6,x,0,0) + v, W(10,0,0,0) + addr, W(15,x,3,3), W(1,2,0,6) >>)

InitBcd ==
    \E x \in BcdRegs, v \in Byte, addr \in BcdAddrs :
        Started(RomBcd(x, v, addr), 2)

TickBcd == ticks < 2 + MaxBcdTicks /\ Tick /\ UNCHANGED host

SpecBcd == InitBcd /\ [][TickBcd]_vars

BcdTick == Fetched /\ last.arg \div 4096 = 15 /\ last.arg % 256 = 51

(* C17: after the BCD store of register value v, memory[I], memory[I+1]    *)
(* and memory[I+2] hold the hundreds, tens and ones digit of v, each in    *)
(* 0..9 with 100h + 10t + o = v; no other memory cell, no register and     *)
(* not the index register changes.                                         *)
C17_BcdDigits ==
    (BcdTick /\ prev.i_reg + 2 <= 4095) =>
        LET v == prev.v_reg[(last.arg \div 256) % 16]
            I == prev.i_reg
            h == RamAt(chip8.ram, I)
            t == RamAt(chip8.ram, I + 1)
            o == RamAt(chip8.ram, I + 2)
        IN  /\ err = "Ok"
            /\ h \in 0 .. 9
            /\ t \in 0 .. 9
            /\ o \in 0 .. 9
            /\ 100 * h + 10 * t + o = v
            /\ \A a \in (DOMAIN chip8.ram \cup DOMAIN prev.ram) \ {I, I + 1, I + 2} :
                  /\ a \in 0 .. 4095
                  /\ RamAt(chip8.ram, a) = RamAt(prev.ram, a)
            /\ chip8.v_reg = prev.v_reg
            /\ chip8.i_reg = prev.i_reg
            /\ [chip8 EXCEPT !.ram = prev.ram, !.pc = prev.pc] = prev

C17_Witness ==
    /\ BcdTick
    /\ err = "Ok"
    /\ prev.v_reg[15] = 209
    /\ prev.i_reg = 4093
    /\ RamAt(chip8.ram, 4093) = 2
    /\ RamAt(chip8.ram, 4094) = 0
    /\ RamAt(chip8.ram, 4095) = 9

---------------------------------------------------------------------------
(* main() of the desktop host: main.rs 92-176.                             *)

MaxPolled == 1       \* events taken from the event pump in one poll

TICKS_PER_FRAME == 10

(* The programs the host is started on: two with sound, one that indexes   *)
(* keys[16], one too long to load.                                         *)
HostPrograms == {RomTimers, RomBeep, RomBadKey, RomData(4096 - 512 + 1)}

HostRoms == {i \in 1 .. Len(Roms) : Roms[i] \in HostPrograms}

(* The keys of the events the host receives. *)
HostKeys == {"X", "Num1", "Escape"}

mvars == <<chip8, err, prev, last, callSites, ticks>>

(* play_audio: the tone buffers in the queue after the call. *)
PlayAudio_NoClear(e, queued) == IF e.st > 0 THEN queued + 1 ELSE queued

PlayAudio(e, queued) == IF e.st > 0 THEN queued + 1 ELSE 0

(* main() goes on to statement `to` having executed `what`. *)
Goes(to, what) == [host EXCEPT !.pc = to, !.did = what, !.audioPrev = host.audio]

(* args.len() != 2: usage, return *)
HostUsage ==
    /\ host.pc = "args"
    /\ host' = Goes("done", "usage")
    /\ UNCHANGED mvars

(* SDL setup and Emu::new(), main.rs 99-130 *)
HostSetup ==
    /\ host.pc = "args"
    /\ host' = Goes("open", "setup")
    /\ UNCHANGED mvars

(* File::open(..).expect("Unable to open file") fails *)
HostOpenFail ==
    /\ host.pc = "open"
    /\ host' = Goes("done", "nofile")
    /\ UNCHANGED mvars

HostLoad_Again ==
    /\ host.pc = "open"
    /\ Load
    /\ last'.arg \in HostRoms
    /\ host' = [Goes("open", "load") EXCEPT !.loads = @ + 1]

(* rom.read_to_end(&mut buffer); chip8.load(&buffer), main.rs 132-135 *)
HostLoad ==
    /\ host.pc = "open"
    /\ Load
    /\ last'.arg \in HostRoms
    /\ host' = [Goes("frame", "load") EXCEPT !.loads = @ + 1]

(* top of 'gameloop: a new frame begins, main.rs 138-141 *)
HostFrame ==
    /\ host.pc = "frame"
    /\ ~Halted
    /\ host' = [Goes("poll", "frame") EXCEPT !.i = 0, !.polled = 0,
                    !.stReads = 0, !.fbReads = 0, !.timerCalls = 0]
    /\ UNCHANGED mvars

(* Event::KeyDown, Event::KeyUp and `_ => ()`, main.rs 147-161 *)
HostKey ==
    /\ host.pc = "poll"
    /\ host.polled < MaxPolled
    /\ KeyEvent(HostKeys)
    /\ host' = [Goes("poll", "event") EXCEPT !.polled = @ + 1]

(* Event::Quit: break 'gameloop, main.rs 144-146 *)
HostQuit ==
    /\ host.pc = "poll"
    /\ ~Halted
    /\ host' = Goes("done", "quit")
    /\ UNCHANGED mvars

(* no event left: chip8.tick(), main.rs 165 *)
HostTick ==
    /\ host.pc = "poll"
    /\ Tick
    /\ host' = [Goes("audio", "tick") EXCEPT !.polled = 0]

(* play_audio(&chip8, &mut audio_queue), main.rs 166, and the end of the   *)
(* body of `for _ in 0..TICKS_PER_FRAME`                                   *)
HostAudio ==
    /\ host.pc = "audio"
    /\ ~Halted
    /\ host' = [Goes(IF host.i + 1 < TICKS_PER_FRAME THEN "poll" ELSE "timers",
                     "play_audio")
                  EXCEPT !.audio = PlayAudio(chip8, host.audio),
                         !.stReads = @ + 1,
                         !.i = @ + 1]
    /\ UNCHANGED mvars

(* chip8.tick_timers(), main.rs 169 *)
HostTimers ==
    /\ host.pc = "timers"
    /\ TickTimers
    /\ host' = [Goes("draw", "tick_timers") EXCEPT !.timerCalls = @ + 1]

(* draw_screen(&chip8, &mut canvas) and the sleep, main.rs 170-174 *)
HostDraw ==
    /\ host.pc = "draw"
    /\ ~Halted
    /\ host' = [Goes("frame", "draw") EXCEPT !.fbReads = @ + 1]
    /\ UNCHANGED mvars

NextHost ==
    \/ HostUsage \/ HostSetup \/ HostOpenFail \/ HostLoad \/ HostFrame
    \/ HostKey \/ HostQuit \/ HostTick \/ HostAudio \/ HostTimers \/ HostDraw

SpecHost == Init /\ [][NextHost]_vars

FrameDone == host.pc = "frame" /\ host.did = "draw"

(* C18: a frame not cut short by Quit makes exactly 10 tick calls, then    *)
(* one tick_timers call, then one read of the framebuffer; the sound       *)
(* timer is read once in the frame.                                        *)
C18_FrameCadence ==
    /\ host.pc = "timers" => host.i = 10
    /\ host.pc = "draw" => host.i = 10 /\ host.timerCalls = 1
    /\ FrameDone =>
          /\ host.i = 10
          /\ host.timerCalls = 1
          /\ host.fbReads = 1
          /\ host.stReads = 1

(* C19: the audio queue follows the sound timer: after every play_audio    *)
(* the queue holds a tone if st > 0, one buffer more than before, and is   *)
(* empty if st = 0, whatever it held before; no other statement of main()  *)
(* changes the queue.                                                      *)
C19_AudioFollowsSoundTimer ==
    /\ host.did = "play_audio" =>
          /\ chip8.st > 0 => host.audio = host.audioPrev + 1 /\ host.audio > 0
          /\ chip8.st = 0 => host.audio = 0
    /\ host.did # "play_audio" => host.audio = host.audioPrev
    /\ host.audio > host.audioPrev => chip8.st > 0

C19_Witness ==
    /\ host.did = "play_audio"
    /\ chip8.st = 0
    /\ host.audioPrev = 9
    /\ host.audio = 0
    /\ ticks = 11

Running == host.pc \in {"frame", "poll", "audio", "timers", "draw"}

(* C20 as claimed: every run of the host calls load exactly once, on the   *)
(* machine as constructed and before any tick, tick_timers or keypress,    *)
(* and the program bytes change afterwards by ticks only.                  *)
C20_EveryRunLoadsOnce ==
    /\ host.loads <= 1
    /\ (Running \/ host.pc = "done") => host.loads = 1
    /\ last.op = "load" => prev = NewEmu /\ ticks = 0
    /\ last.op \in {"tick", "tick_timers", "keypress"} => host.loads = 1
    /\ last.op \in {"tick_timers", "keypress"} => chip8.ram = prev.ram

(* C20: load is called at most once in a run, and exactly once in every    *)
(* run that reaches the game loop: on the machine as constructed, before   *)
(* any tick, tick_timers or keypress; the program bytes change afterwards  *)
(* by ticks only.  A run that ends at the usage message or at the file     *)
(* that cannot be opened calls load not at all.                            *)
C20_LoadOnceBeforeRunning ==
    /\ host.loads <= 1
    /\ Running => host.loads = 1
    /\ host.did = "quit" => host.loads = 1
    /\ host.did \in {"usage", "nofile"} => host.loads = 0 /\ last.op = "new"
    /\ last.op = "load" => prev = NewEmu /\ ticks = 0
    /\ last.op \in {"tick", "tick_timers", "keypress"} => host.loads = 1
    /\ last.op \in {"tick_timers", "keypress"} => chip8.ram = prev.ram

C20_Witness ==
    /\ host.loads = 1
    /\ host.did = "tick"
    /\ ticks = 4
    /\ RamAt(chip8.ram, 768) = 1
    /\ RamAt(prev.ram, 768) = 0
    /\ chip8.keys[0]

=============================================================================
